---- MODULE Spec2Model ----
(***************************************************************************)
(* rattus: the Ortholog Resolver (src/src/api.py, class EnsemblAPI) and    *)
(* the Batch Pipeline (src/src/file_processing.py, process_csv).           *)
(*                                                                         *)
(* LookupSpec runs one call of EnsemblAPI.get_human_ortholog step by step  *)
(* (one HTTP attempt, one handle_error, the final return).                 *)
(* Spec runs one call of process_csv: the coordinating thread, and one     *)
(* worker task per input row executing process_gene, interleaved.          *)
(***************************************************************************)
EXTENDS Integers, Sequences, FiniteSets, TLC

VARIABLES
    \* ---- one lookup: EnsemblAPI.get_human_ortholog(rat_gene, retries, delay)
    rat_gene,          \* argument rat_gene
    retries,           \* argument retries
    delay,             \* argument delay
    attempt,           \* loop variable of fetch_data
    pcL,               \* position of the lookup
    exc,               \* the exception caught at api.py:39 ("" when none)
    history,           \* result class of every HTTP attempt made so far
    sleeps,            \* every time.sleep performed: [attempt, sleep_time]
    logs,              \* severity of every logging call made so far
    data,              \* what fetch_data returned
    outcome,           \* what get_human_ortholog returned
    \* ---- one batch run: process_csv(input_file_path, output_file_path, api)
    api,               \* argument api
    infile,            \* content of the input file: [header, rows]
    outfile,           \* the output file: [exists, header, rows]
    pcM,               \* position of the coordinating thread
    pig_genes,         \* list built at file_processing.py:66
    future_to_gene,    \* number of futures submitted so far (in list order)
    tasks,             \* per future: the state of its process_gene call
    not_found_count,   \* nonlocal counter
    error_count,       \* nonlocal counter
    yielded,           \* futures as_completed has already yielded
    cur,               \* future whose results are being written (0: none)
    wi,                \* index of the next row of cur to write
    finished,          \* futures already finished when as_completed is called
    completed,         \* finished futures the loop of line 90 has not dealt
                       \* with yet, in order of completion
    \* ---- the command surface: main() of cli.py
    args,              \* parsed arguments (cli.py:18)
    input_exists,      \* os.path.exists(args.input_file_path) as main starts
    output_exists,     \* os.path.exists(args.output_file_path) as main starts
    pcC,               \* position of main
    exit_code,         \* exit status of the process (-1 while it runs)
    stdout             \* lines printed so far

lookupVars == <<rat_gene, retries, delay, attempt, pcL, exc, history, sleeps,
                logs, data, outcome>>
batchVars == <<api, infile, outfile, pcM, pig_genes, future_to_gene, tasks,
               not_found_count, error_count, yielded, cur, wi, finished,
               completed>>
cliVars == <<args, input_exists, output_exists, pcC, exit_code, stdout>>
vars == <<lookupVars, batchVars, cliVars>>

(***************************************************************************)
(* Bounds                                                                  *)
(***************************************************************************)
MaxRetries == 3        \* largest value of the argument retries explored
MaxHomologies == 2     \* longest homologies list in a response
MaxGenes == 2          \* most data rows in the input table
PoolTasks == 11        \* data rows of the run that fills the worker pool

(***************************************************************************)
(* JSON bodies of the remote service                                       *)
(***************************************************************************)
HomologyEntries ==
    { [type |-> "ortholog_one2one",
       target |-> [id |-> "PDX1", species |-> "homo_sapiens",
                   perc_id |-> "98.5", perc_pos |-> "97.2"]],
      [type |-> "ortholog_one2many",
       target |-> [id |-> "INS", species |-> "homo_sapiens",
                   perc_id |-> "85.0", perc_pos |-> "90.1"]],
      [type |-> "ortholog_one2one",
       target |-> [id |-> "Pdx1", species |-> "mus_musculus",
                   perc_id |-> "99.0", perc_pos |-> "99.5"]] }

SeqsUpTo(S, n) == UNION { [1..k -> S] : k \in 0..n }

HomologyLists == SeqsUpTo(HomologyEntries, MaxHomologies)

\* A parsed JSON value: its Python type, the keys of a dict, and the value
\* under the key 'data' (a list of objects with a 'homologies' list).
JsonNull == [kind |-> "null", keys |-> {}, data |-> <<>>]
JsonEmptyList == [kind |-> "list", keys |-> {}, data |-> <<>>]
JsonEmptyDict == [kind |-> "dict", keys |-> {}, data |-> <<>>]
JsonErrorDict == [kind |-> "dict", keys |-> {"error"}, data |-> <<>>]
JsonNoData == [kind |-> "dict", keys |-> {"data"}, data |-> <<>>]
WellFormed(hs) ==
    [kind |-> "dict", keys |-> {"data"}, data |-> << [homologies |-> hs] >>]

WellFormedBodies == { WellFormed(hs) : hs \in HomologyLists }
Bodies == {JsonNull, JsonEmptyList, JsonEmptyDict, JsonErrorDict, JsonNoData}
          \cup WellFormedBodies

\* Python's None, as returned by fetch_data at api.py:42
None == [kind |-> "None", keys |-> {}, data |-> <<>>]

\* Python truth value of what fetch_data returned (api.py:91, api.py:117)
Truthy(d) == d.kind = "dict" /\ d.keys # {}

\* The ways one attempt (api.py:36-38) can raise
Failures == {"HTTPError400", "HTTPError", "RequestException", "Exception"}

(***************************************************************************)
(* EnsemblAPI.process_response (api.py:97-136)                             *)
(***************************************************************************)
Ortholog(g, h) ==
    [rat_gene |-> g, gene_symbol |-> h.target.id, type |-> h.type,
     identity |-> h.target.perc_id, positivity |-> h.target.perc_pos]

NotFoundRecord(g) ==
    [rat_gene |-> g, gene_symbol |-> "not found", type |-> "",
     identity |-> "", positivity |-> ""]

ErrorRecord(g) ==
    [rat_gene |-> g, gene_symbol |-> "error - retries exceeded", type |-> "",
     identity |-> "", positivity |-> ""]

\* a slip in api.py:125: the species filter lets every entry through
IsHumanAny(h) == h.target.species \in {"homo_sapiens", "mus_musculus"}

IsHuman(h) == h.target.species = "homo_sapiens"

\* the list comprehension of api.py:118-126
RECURSIVE Comprehension(_, _)
Comprehension(hs, g) ==
    IF hs = <<>> THEN <<>>
    ELSE (IF IsHuman(Head(hs)) THEN <<Ortholog(g, Head(hs))>> ELSE <<>>)
         \o Comprehension(Tail(hs), g)

\* data['data'][0]['homologies'] raises KeyError or IndexError (api.py:117)
process_response_raises(d) ==
    Truthy(d) /\ ("data" \notin d.keys \/ Len(d.data) = 0)

\* a slip in api.py:128: the sentinel is never appended
process_response_no_sentinel(d, g) ==
    IF Truthy(d) /\ d.data[1].homologies # <<>>
    THEN Comprehension(d.data[1].homologies, g)
    ELSE <<>>

process_response(d, g) ==
    LET human_orthologs ==
            IF Truthy(d) /\ d.data[1].homologies # <<>>
            THEN Comprehension(d.data[1].homologies, g)
            ELSE <<>>
    IN IF human_orthologs = <<>> THEN <<NotFoundRecord(g)>>
       ELSE human_orthologs

(***************************************************************************)
(* EnsemblAPI.fetch_data / handle_error / get_human_ortholog               *)
(***************************************************************************)
Genes == {"Pdx1", "Bogus123"}
RetriesValues == 0..MaxRetries
DelayValues == {1, 2}
\* random.uniform(0.8, 1.2) in thousandths
JitterValues == {800, 1000, 1199}

RECURSIVE Pow2(_)
Pow2(n) == IF n = 0 THEN 1 ELSE 2 * Pow2(n - 1)

\* api.py:69 with a delay that grows linearly
SleepTimeLinear(d, a, jitter) == d * (a + 1) * jitter

\* api.py:69, in milliseconds
SleepTime(d, a, jitter) == d * Pow2(a) * jitter

\* api.py:59-67 without the branch for status 400
SeverityNo400Branch(e) ==
    CASE e \in {"HTTPError400", "HTTPError"} -> "error"
      [] e = "RequestException" -> "exception"
      [] OTHER -> "critical"

\* api.py:59-67
Severity(e) ==
    CASE e = "HTTPError400" -> "warning"
      [] e = "HTTPError" -> "error"
      [] e = "RequestException" -> "exception"
      [] OTHER -> "critical"

\* api.py:34 with one iteration too many
InRangeInclusive(a, r) == a <= r

\* api.py:34: the loop has an iteration for this value of attempt
InRange(a, r) == a < r

\* a slip in api.py:41: gives up one attempt early
IsLastAttemptEarly(a, r) == a >= r - 2

\* api.py:41
IsLastAttempt(a, r) == a = r - 1

NoOutcome == [records |-> <<>>, error |-> FALSE]

\* api.py:91-94, given what fetch_data returned
get_human_ortholog(d, g) ==
    IF Truthy(d)
    THEN [records |-> process_response(d, g), error |-> FALSE]
    ELSE [records |-> <<ErrorRecord(g)>>, error |-> TRUE]

BatchIdle ==
    /\ api = "EnsemblAPI"
    /\ infile = [header |-> <<>>, rows |-> <<>>]
    /\ outfile = [exists |-> FALSE, header |-> <<>>, rows |-> <<>>]
    /\ pcM = "idle"
    /\ pig_genes = <<>>
    /\ future_to_gene = 0
    /\ tasks = <<>>
    /\ not_found_count = 0
    /\ error_count = 0
    /\ yielded = {}
    /\ cur = 0
    /\ wi = 0
    /\ finished = {}
    /\ completed = <<>>

NoArgs == [ensembl_id |-> "", input_file_path |-> "", output_file_path |-> "",
           overwrite |-> FALSE]

\* main is not running
CliIdle ==
    /\ args = NoArgs
    /\ input_exists = FALSE
    /\ output_exists = FALSE
    /\ pcC = "idle"
    /\ exit_code = -1
    /\ stdout = <<>>

LookupInit ==
    /\ rat_gene \in Genes
    /\ retries \in RetriesValues
    /\ delay \in DelayValues
    /\ attempt = 0
    /\ pcL = "loop"
    /\ exc = ""
    /\ history = <<>>
    /\ sleeps = <<>>
    /\ logs = <<>>
    /\ data = None
    /\ outcome = NoOutcome
    /\ BatchIdle
    /\ CliIdle

\* api.py:34: enter the next iteration, or fall off the loop (returns None)
LoopTest ==
    /\ pcL = "loop"
    /\ IF InRange(attempt, retries)
       THEN pcL' = "get" /\ UNCHANGED data
       ELSE pcL' = "return" /\ data' = None
    /\ UNCHANGED <<rat_gene, retries, delay, attempt, exc, history, sleeps,
                   logs, outcome>>
    /\ UNCHANGED batchVars
    /\ UNCHANGED cliVars

\* api.py:36-38: the attempt succeeds and fetch_data returns response.json()
GetOk ==
    /\ pcL = "get"
    /\ \E body \in Bodies : data' = body
    /\ history' = Append(history, "ok")
    /\ pcL' = "return"
    /\ UNCHANGED <<rat_gene, retries, delay, attempt, exc, sleeps, logs,
                   outcome>>
    /\ UNCHANGED batchVars
    /\ UNCHANGED cliVars

\* api.py:36-39: get, raise_for_status or json raises
GetRaises ==
    /\ pcL = "get"
    /\ \E e \in Failures : exc' = e /\ history' = Append(history, e)
    /\ pcL' = "handle"
    /\ UNCHANGED <<rat_gene, retries, delay, attempt, sleeps, logs, data,
                   outcome>>
    /\ UNCHANGED batchVars
    /\ UNCHANGED cliVars

\* api.py:40-42 with handle_error (api.py:59-71)
HandleError ==
    /\ pcL = "handle"
    /\ logs' = logs \o <<Severity(exc), "info">>
    /\ \E j \in JitterValues :
          sleeps' = Append(sleeps, [attempt |-> attempt,
                                    sleep_time |-> SleepTime(delay, attempt, j)])
    /\ exc' = ""
    /\ IF IsLastAttempt(attempt, retries)
       THEN pcL' = "return" /\ data' = None /\ UNCHANGED attempt
       ELSE pcL' = "loop" /\ attempt' = attempt + 1 /\ UNCHANGED data
    /\ UNCHANGED <<rat_gene, retries, delay, history, outcome>>
    /\ UNCHANGED batchVars
    /\ UNCHANGED cliVars

\* api.py:90-94
Return ==
    /\ pcL = "return"
    /\ IF process_response_raises(data)
       THEN pcL' = "raised" /\ UNCHANGED outcome
       ELSE pcL' = "done" /\ outcome' = get_human_ortholog(data, rat_gene)
    /\ UNCHANGED <<rat_gene, retries, delay, attempt, exc, history, sleeps,
                   logs, data>>
    /\ UNCHANGED batchVars
    /\ UNCHANGED cliVars

LookupNext == LoopTest \/ GetOk \/ GetRaises \/ HandleError \/ Return

LookupSpec == LookupInit /\ [][LookupNext]_vars

(***************************************************************************)
(* process_csv (file_processing.py:29-101)                                 *)
(***************************************************************************)
GeneColumn == "Pig Gene"

\* file_processing.py:62
fieldnames ==
    <<"Pig Gene", "Human Ortholog Gene Symbol", "Type", "Identity (%)",
      "Positivity (%)">>

\* file_processing.py:88
max_workers == 10

Range(f) == { f[i] : i \in DOMAIN f }

\* header rows of the input file; <<>> is an empty file or a blank first line
Headers == { <<>>, <<"Pig Gene">>, <<"Rat Gene">>, <<"Id", "Pig Gene">>,
             <<"Id", "Name">> }

\* the output path before the run: absent, or a file left by an earlier run
NoFile == [exists |-> FALSE, header |-> <<>>, rows |-> <<>>]
OldFile == [exists |-> TRUE, header |-> <<"old">>, rows |-> <<>>]

\* a slip in validate_input_file: the column check of line 24 is missing
HeaderAcceptedNoColumnCheck(headers) == headers # <<>>

\* validate_input_file (file_processing.py:18-27) raises no ValueError
HeaderAccepted(headers) == headers # <<>> /\ GeneColumn \in Range(headers)

\* the api argument: the EnsemblAPI of api.py, or another object with the
\* same get_human_ortholog whose records carry the key process_gene reads
Apis == {"EnsemblAPI", "PigGeneAPI"}

Rekey(r) ==
    [pig_gene |-> r.rat_gene, gene_symbol |-> r.gene_symbol, type |-> r.type,
     identity |-> r.identity, positivity |-> r.positivity]

\* api.get_human_ortholog(pig_gene), given what its fetch_data returned
ApiLookup(a, d, g) ==
    IF a = "EnsemblAPI" THEN get_human_ortholog(d, g)
    ELSE LET o == get_human_ortholog(d, g)
         IN [records |-> [k \in 1..Len(o.records) |-> Rekey(o.records[k])],
             error |-> o.error]

\* JSON null as target.id of a homology
NullId == "<null>"

PDX1 == [type |-> "ortholog_one2one",
         target |-> [id |-> "PDX1", species |-> "homo_sapiens",
                     perc_id |-> "98.5", perc_pos |-> "97.2"]]
INS == [type |-> "ortholog_one2many",
        target |-> [id |-> "INS", species |-> "homo_sapiens",
                    perc_id |-> "85.0", perc_pos |-> "90.1"]]
Anon == [type |-> "ortholog_one2one",
         target |-> [id |-> NullId, species |-> "homo_sapiens",
                     perc_id |-> "70.0", perc_pos |-> "75.0"]]

\* what fetch_data returns to the lookups of a batch run
BatchFetched ==
    { None, JsonErrorDict, WellFormed(<<>>), WellFormed(<<PDX1>>),
      WellFormed(<<PDX1, INS>>), WellFormed(<<PDX1, Anon>>) }

\* file_processing.py:73: ortholog['pig_gene'] raises KeyError
RaisesKeyError(ortholog) == "pig_gene" \notin DOMAIN ortholog

\* file_processing.py:79: None has no startswith (AttributeError)
RaisesAttributeError(ortholog) == ortholog.gene_symbol = NullId

\* the strings of the model that begin with "error"
StartsWithError(sym) == sym \in {"error - retries exceeded"}

\* file_processing.py:79
IsSentinel(sym) == sym = "not found" \/ StartsWithError(sym)

\* file_processing.py:72-78, in the order of fieldnames
ResultRow(ortholog) ==
    <<ortholog.pig_gene, ortholog.gene_symbol, ortholog.type,
      ortholog.identity, ortholog.positivity>>

\* a slip in file_processing.py:72: the row is put in front of the list
PrependResult(results, row) == <<row>> \o results

\* file_processing.py:72: results.append(...)
AppendResult(results, row) == Append(results, row)

NewTask(g) ==
    [gene |-> g, pc |-> "created", human_orthologs |-> <<>>, error |-> FALSE,
     results |-> <<>>, i |-> 0, tmp |-> 0, stores |-> 0]

Futures == 1..future_to_gene
\* a slip: a task that sleeps in backoff gives its worker back to the pool
RunningAwake(t) ==
    tasks[t].pc \notin {"created", "queued", "returned", "raised", "sleep"}

\* the task occupies a worker thread of the pool
Running(t) == tasks[t].pc \notin {"created", "queued", "returned", "raised"}
Finished(t) == tasks[t].pc \in {"returned", "raised"}

LookupIdle ==
    /\ rat_gene = "" /\ retries = 0 /\ delay = 0 /\ attempt = 0
    /\ pcL = "idle" /\ exc = "" /\ history = <<>> /\ sleeps = <<>>
    /\ logs = <<>> /\ data = None /\ outcome = NoOutcome

Init ==
    /\ api \in Apis
    /\ infile \in { [header |-> h, rows |-> r] :
                      h \in Headers, r \in SeqsUpTo(Genes, MaxGenes) }
    /\ outfile \in {NoFile, OldFile}
    /\ pcM = "validate"
    /\ pig_genes = <<>>
    /\ future_to_gene = 0
    /\ tasks = <<>>
    /\ not_found_count = 0
    /\ error_count = 0
    /\ yielded = {}
    /\ cur = 0
    /\ wi = 0
    /\ finished = {}
    /\ completed = <<>>
    /\ LookupIdle
    /\ CliIdle

\* file_processing.py:49: validate_input_file(input_file_path)
Validate ==
    /\ pcM = "validate"
    /\ pcM' = IF HeaderAccepted(infile.header) THEN "open" ELSE "ValueError"
    /\ UNCHANGED <<api, infile, outfile, pig_genes, future_to_gene, tasks,
                   not_found_count, error_count, yielded, cur, wi>>
    /\ UNCHANGED <<finished, completed>>
    /\ UNCHANGED lookupVars
    /\ UNCHANGED cliVars

\* file_processing.py:54-60: both files are opened (the output file with
\* mode 'w'), then the header is checked again; sys is not imported
OpenFiles ==
    /\ pcM = "open"
    /\ outfile' = [exists |-> TRUE, header |-> <<>>, rows |-> <<>>]
    /\ pcM' = IF GeneColumn \in Range(infile.header) THEN "header"
              ELSE "NameError"
    /\ UNCHANGED <<api, infile, pig_genes, future_to_gene, tasks,
                   not_found_count, error_count, yielded, cur, wi>>
    /\ UNCHANGED <<finished, completed>>
    /\ UNCHANGED lookupVars
    /\ UNCHANGED cliVars

\* file_processing.py:62-64
WriteHeader ==
    /\ pcM = "header"
    /\ outfile' = [outfile EXCEPT !.header = fieldnames]
    /\ pcM' = "read"
    /\ UNCHANGED <<api, infile, pig_genes, future_to_gene, tasks,
                   not_found_count, error_count, yielded, cur, wi>>
    /\ UNCHANGED <<finished, completed>>
    /\ UNCHANGED lookupVars
    /\ UNCHANGED cliVars

\* file_processing.py:66
ReadGenes ==
    /\ pcM = "read"
    /\ pig_genes' = infile.rows
    /\ tasks' = [k \in 1..Len(infile.rows) |-> NewTask(infile.rows[k])]
    /\ pcM' = "submit"
    /\ UNCHANGED <<api, infile, outfile, future_to_gene, not_found_count,
                   error_count, yielded, cur, wi>>
    /\ UNCHANGED <<finished, completed>>
    /\ UNCHANGED lookupVars
    /\ UNCHANGED cliVars

\* file_processing.py:89: one executor.submit per gene, in list order
Submit ==
    /\ pcM = "submit"
    /\ IF future_to_gene < Len(pig_genes)
       THEN /\ future_to_gene' = future_to_gene + 1
            /\ tasks' = [tasks EXCEPT ![future_to_gene + 1].pc = "queued"]
            /\ UNCHANGED <<pcM, finished>>
       ELSE /\ pcM' = "as_completed"
            /\ finished' = { t \in Futures : Finished(t) }
            /\ UNCHANGED <<future_to_gene, tasks>>
    /\ UNCHANGED <<api, infile, outfile, pig_genes, not_found_count,
                   error_count, yielded, cur, wi>>
    /\ UNCHANGED completed
    /\ UNCHANGED lookupVars
    /\ UNCHANGED cliVars

\* a worker thread of the pool takes the oldest queued task
StartTask(t) ==
    /\ tasks[t].pc = "queued"
    /\ \A u \in 1..(t - 1) : tasks[u].pc # "queued"
    /\ Cardinality({ u \in Futures : Running(u) }) < max_workers
    /\ tasks' = [tasks EXCEPT ![t].pc = "lookup"]
    /\ UNCHANGED <<api, infile, outfile, pcM, pig_genes, future_to_gene,
                   not_found_count, error_count, yielded, cur, wi>>
    /\ UNCHANGED <<finished, completed>>
    /\ UNCHANGED lookupVars
    /\ UNCHANGED cliVars

\* file_processing.py:69-70
CallLookup(t) ==
    /\ tasks[t].pc = "lookup"
    /\ \E d \in BatchFetched :
          IF process_response_raises(d)
          THEN tasks' = [tasks EXCEPT ![t].pc = "raised"]
          ELSE LET o == ApiLookup(api, d, tasks[t].gene)
               IN tasks' = [tasks EXCEPT ![t].pc = "for",
                                         ![t].human_orthologs = o.records,
                                         ![t].error = o.error,
                                         ![t].i = 1]
    /\ UNCHANGED <<api, infile, outfile, pcM, pig_genes, future_to_gene,
                   not_found_count, error_count, yielded, cur, wi>>
    /\ completed' = IF Finished(t)' THEN Append(completed, t) ELSE completed
    /\ UNCHANGED finished
    /\ UNCHANGED lookupVars
    /\ UNCHANGED cliVars

\* file_processing.py:71-79 and 85: one iteration up to the test of line 79,
\* or the return once the list is exhausted
ForOrtholog(t) ==
    /\ tasks[t].pc = "for"
    /\ LET T == tasks[t]
       IN IF T.i > Len(T.human_orthologs)
          THEN tasks' = [tasks EXCEPT ![t].pc = "returned"]
          ELSE LET ortholog == T.human_orthologs[T.i]
               IN IF RaisesKeyError(ortholog) \/ RaisesAttributeError(ortholog)
                  THEN tasks' = [tasks EXCEPT ![t].pc = "raised"]
                  ELSE tasks' =
                         [tasks EXCEPT
                            ![t].results =
                                AppendResult(@, ResultRow(ortholog)),
                            ![t].pc = IF IsSentinel(ortholog.gene_symbol)
                                      THEN "load_nf" ELSE "for",
                            ![t].i = IF IsSentinel(ortholog.gene_symbol)
                                     THEN @ ELSE @ + 1]
    /\ UNCHANGED <<api, infile, outfile, pcM, pig_genes, future_to_gene,
                   not_found_count, error_count, yielded, cur, wi>>
    /\ completed' = IF Finished(t)' THEN Append(completed, t) ELSE completed
    /\ UNCHANGED finished
    /\ UNCHANGED lookupVars
    /\ UNCHANGED cliVars

\* file_processing.py:82: not_found_count += 1 reads the counter ...
LoadNotFound(t) ==
    /\ tasks[t].pc = "load_nf"
    /\ tasks' = [tasks EXCEPT ![t].tmp = not_found_count,
                              ![t].pc = "store_nf"]
    /\ UNCHANGED <<api, infile, outfile, pcM, pig_genes, future_to_gene,
                   not_found_count, error_count, yielded, cur, wi>>
    /\ UNCHANGED <<finished, completed>>
    /\ UNCHANGED lookupVars
    /\ UNCHANGED cliVars

\* ... and stores the sum; then the test of line 83
StoreNotFound(t) ==
    /\ tasks[t].pc = "store_nf"
    /\ not_found_count' = tasks[t].tmp + 1
    /\ tasks' = [tasks EXCEPT ![t].tmp = 0,
                              ![t].stores = @ + 1,
                              ![t].pc = IF tasks[t].error THEN "load_ec"
                                        ELSE "for",
                              ![t].i = IF tasks[t].error THEN @ ELSE @ + 1]
    /\ UNCHANGED <<api, infile, outfile, pcM, pig_genes, future_to_gene,
                   error_count, yielded, cur, wi>>
    /\ UNCHANGED <<finished, completed>>
    /\ UNCHANGED lookupVars
    /\ UNCHANGED cliVars

\* file_processing.py:84: error_count += 1 reads the counter ...
LoadError(t) ==
    /\ tasks[t].pc = "load_ec"
    /\ tasks' = [tasks EXCEPT ![t].tmp = error_count, ![t].pc = "store_ec"]
    /\ UNCHANGED <<api, infile, outfile, pcM, pig_genes, future_to_gene,
                   not_found_count, error_count, yielded, cur, wi>>
    /\ UNCHANGED <<finished, completed>>
    /\ UNCHANGED lookupVars
    /\ UNCHANGED cliVars

\* ... and stores the sum
StoreError(t) ==
    /\ tasks[t].pc = "store_ec"
    /\ error_count' = tasks[t].tmp + 1
    /\ tasks' = [tasks EXCEPT ![t].tmp = 0, ![t].stores = @ + 1,
                              ![t].pc = "for", ![t].i = @ + 1]
    /\ UNCHANGED <<api, infile, outfile, pcM, pig_genes, future_to_gene,
                   not_found_count, yielded, cur, wi>>
    /\ UNCHANGED <<finished, completed>>
    /\ UNCHANGED lookupVars
    /\ UNCHANGED cliVars

\* a slip in file_processing.py:97: the exception of a task is not caught
TaskExceptionCaughtNever(task) == FALSE

\* file_processing.py:92-97: future.result() raises what the task raised,
\* and except Exception catches it
TaskExceptionCaught(task) == task.pc = "raised"

\* the list without the future t
Remove(seq, t) == SelectSeq(seq, LAMBDA u : u # t)

\* file_processing.py:90-93 and 97-99: as_completed yields a finished future:
\* first, in the order of a set, the futures that were finished when it was
\* called, then the others in the order they finish
NextCompleted(t) ==
    /\ pcM = "as_completed"
    /\ cur = 0
    /\ t \notin yielded
    /\ Finished(t)
    /\ IF finished \ yielded # {}
       THEN t \in finished
       ELSE t = Head(completed)
    /\ yielded' = yielded \cup {t}
    /\ IF tasks[t].pc = "raised"
       THEN /\ pcM' = IF TaskExceptionCaught(tasks[t]) THEN pcM
                      ELSE "propagated"
            /\ completed' = Remove(completed, t)
            /\ UNCHANGED <<cur, wi>>
       ELSE /\ IF Len(tasks[t].results) > 0
               THEN cur' = t /\ wi' = 1 /\ UNCHANGED completed
               ELSE /\ completed' = Remove(completed, t)
                    /\ UNCHANGED <<cur, wi>>
            /\ UNCHANGED pcM
    /\ UNCHANGED <<api, infile, outfile, pig_genes, future_to_gene, tasks,
                   not_found_count, error_count>>
    /\ UNCHANGED finished
    /\ UNCHANGED lookupVars
    /\ UNCHANGED cliVars

\* file_processing.py:94-95
WriteRow ==
    /\ pcM = "as_completed"
    /\ cur # 0
    /\ outfile' = [outfile EXCEPT !.rows = Append(@, tasks[cur].results[wi])]
    /\ IF wi < Len(tasks[cur].results)
       THEN wi' = wi + 1 /\ UNCHANGED <<cur, completed>>
       ELSE wi' = 0 /\ cur' = 0 /\ completed' = Remove(completed, cur)
    /\ UNCHANGED <<api, infile, pcM, pig_genes, future_to_gene, tasks,
                   not_found_count, error_count, yielded>>
    /\ UNCHANGED finished
    /\ UNCHANGED lookupVars
    /\ UNCHANGED cliVars

\* file_processing.py:90 and 101: every future was yielded; the pool and the
\* files are closed and the tally is returned
ReturnTally ==
    /\ pcM = "as_completed"
    /\ cur = 0
    /\ yielded = Futures
    /\ pcM' = "done"
    /\ UNCHANGED <<api, infile, outfile, pig_genes, future_to_gene, tasks,
                   not_found_count, error_count, yielded, cur, wi>>
    /\ UNCHANGED <<finished, completed>>
    /\ UNCHANGED lookupVars
    /\ UNCHANGED cliVars

Next ==
    \/ Validate \/ OpenFiles \/ WriteHeader \/ ReadGenes \/ Submit
    \/ \E t \in Futures : StartTask(t)
    \/ \E t \in Futures : CallLookup(t)
    \/ \E t \in Futures : ForOrtholog(t)
    \/ \E t \in Futures : LoadNotFound(t)
    \/ \E t \in Futures : StoreNotFound(t)
    \/ \E t \in Futures : LoadError(t)
    \/ \E t \in Futures : StoreError(t)
    \/ \E t \in Futures : NextCompleted(t)
    \/ WriteRow
    \/ ReturnTally

Spec == Init /\ [][Next]_vars

(***************************************************************************)
(* The worker pool under load (file_processing.py:88-89).  PoolSpec is a   *)
(* run over PoolTasks rows, more than max_workers.  A started task is      *)
(* either inside an HTTP attempt ("lookup") or inside the time.sleep of    *)
(* handle_error ("sleep"); the attempt number and the rest of process_gene *)
(* are left out, so a task may retry any number of times.  The run starts  *)
(* where line 89 has submitted every row and no worker thread has taken a  *)
(* task yet; Spec has the submissions interleaved with the workers, and    *)
(* the loop of line 90, which is left out here with its bookkeeping.       *)
(***************************************************************************)
PoolInit ==
    /\ api = "EnsemblAPI"
    /\ infile = [header |-> <<GeneColumn>>, rows |-> [k \in 1..PoolTasks |-> "Pdx1"]]
    /\ outfile = [exists |-> TRUE, header |-> fieldnames, rows |-> <<>>]
    /\ pcM = "submit"
    /\ pig_genes = [k \in 1..PoolTasks |-> "Pdx1"]
    /\ future_to_gene = PoolTasks
    /\ tasks = [k \in 1..PoolTasks |-> [NewTask("Pdx1") EXCEPT !.pc = "queued"]]
    /\ not_found_count = 0
    /\ error_count = 0
    /\ yielded = {}
    /\ cur = 0
    /\ wi = 0
    /\ finished = {}
    /\ completed = <<>>
    /\ LookupIdle
    /\ CliIdle

\* api.py:36-40 and 69-71: the attempt raises and handle_error sleeps, on
\* the worker thread that runs the task
PoolAttemptRaises(t) ==
    /\ tasks[t].pc = "lookup"
    /\ tasks' = [tasks EXCEPT ![t].pc = "sleep"]
    /\ UNCHANGED <<api, infile, outfile, pcM, pig_genes, future_to_gene,
                   not_found_count, error_count, yielded, cur, wi>>
    /\ UNCHANGED <<finished, completed>>
    /\ UNCHANGED lookupVars
    /\ UNCHANGED cliVars

\* api.py:71 and 41-42, 34: time.sleep returns; the next attempt starts, or
\* it was the last one and the task runs to its end
PoolWake(t) ==
    /\ tasks[t].pc = "sleep"
    /\ \E last \in BOOLEAN :
          tasks' = [tasks EXCEPT ![t].pc = IF last THEN "returned"
                                           ELSE "lookup"]
    /\ UNCHANGED <<api, infile, outfile, pcM, pig_genes, future_to_gene,
                   not_found_count, error_count, yielded, cur, wi>>
    /\ UNCHANGED <<finished, completed>>
    /\ UNCHANGED lookupVars
    /\ UNCHANGED cliVars

\* api.py:36-38: the attempt succeeds and the task runs to its end
PoolAttemptOk(t) ==
    /\ tasks[t].pc = "lookup"
    /\ tasks' = [tasks EXCEPT ![t].pc = "returned"]
    /\ UNCHANGED <<api, infile, outfile, pcM, pig_genes, future_to_gene,
                   not_found_count, error_count, yielded, cur, wi>>
    /\ UNCHANGED <<finished, completed>>
    /\ UNCHANGED lookupVars
    /\ UNCHANGED cliVars

PoolNext ==
    \/ \E t \in Futures : StartTask(t)
    \/ \E t \in Futures : PoolAttemptRaises(t)
    \/ \E t \in Futures : PoolWake(t)
    \/ \E t \in Futures : PoolAttemptOk(t)

PoolSpec == PoolInit /\ [][PoolNext]_vars

(***************************************************************************)
(* The command surface: main() of cli.py.  CliSpec is one run of the       *)
(* program: main, the lookup it makes in single-identifier mode, and the   *)
(* batch run it starts in file mode.                                       *)
(***************************************************************************)

\* cli.py:24 passes no retries and no delay: the defaults of api.py:73
DefaultRetries == 3
DefaultDelay == 2

\* the input files a run of main may find on disk
CliInfiles == { [header |-> h, rows |-> r] :
                  h \in { <<>>, <<"Pig Gene">>, <<"Rat Gene">> },
                  r \in SeqsUpTo({"Pdx1"}, 1) }

\* no file at the input path
NoInfile == [header |-> <<>>, rows |-> <<>>]

\* argparse: every option may be given or left out; a path that is not
\* given names no file
ArgValues == [ensembl_id : {"", "Pdx1"}, input_file_path : {"", "in.csv"},
              output_file_path : {"", "out.csv"}, overwrite : BOOLEAN]

CliInit ==
    /\ args \in ArgValues
    /\ input_exists \in BOOLEAN
    /\ args.input_file_path = "" => ~input_exists
    /\ output_exists \in BOOLEAN
    /\ args.output_file_path = "" => ~output_exists
    /\ pcC = "main"
    /\ exit_code = -1
    /\ stdout = <<>>
    /\ api = "EnsemblAPI"
    /\ infile \in (IF input_exists THEN CliInfiles ELSE {NoInfile})
    /\ outfile = (IF output_exists THEN OldFile ELSE NoFile)
    /\ pcM = "idle"
    /\ pig_genes = <<>>
    /\ future_to_gene = 0
    /\ tasks = <<>>
    /\ not_found_count = 0
    /\ error_count = 0
    /\ yielded = {}
    /\ cur = 0
    /\ wi = 0
    /\ finished = {}
    /\ completed = <<>>
    /\ LookupIdle

\* cli.py:22: a missing or empty --ensembl_id selects file mode
SingleMode(a) == a.ensembl_id # ""

\* cli.py:31
MissingPath(a) == a.input_file_path = "" \/ a.output_file_path = ""

\* the check of cli.py:39 never refusing
RefusesOverwriteNever(exists, overwrite) == FALSE

\* cli.py:39
RefusesOverwrite(exists, overwrite) == exists /\ ~overwrite

\* cli.py:22-24: single-identifier mode logs and calls get_human_ortholog
MainSingle ==
    /\ pcC = "main"
    /\ SingleMode(args)
    /\ pcC' = "lookup"
    /\ rat_gene' = args.ensembl_id
    /\ retries' = DefaultRetries
    /\ delay' = DefaultDelay
    /\ attempt' = 0
    /\ pcL' = "loop"
    /\ logs' = Append(logs, "info")
    /\ UNCHANGED <<exc, history, sleeps, data, outcome>>
    /\ UNCHANGED <<args, input_exists, output_exists, exit_code, stdout>>
    /\ UNCHANGED batchVars

\* cli.py:30-43: file mode makes its three checks in order; each failure
\* logs an error and calls sys.exit(1); otherwise process_csv is called
MainFile ==
    /\ pcC = "main"
    /\ ~SingleMode(args)
    /\ IF \/ MissingPath(args)
          \/ ~input_exists
          \/ RefusesOverwrite(output_exists, args.overwrite)
       THEN /\ logs' = Append(logs, "error")
            /\ exit_code' = 1
            /\ pcC' = "exit"
            /\ UNCHANGED pcM
       ELSE /\ pcC' = "process_csv"
            /\ pcM' = "validate"
            /\ UNCHANGED <<logs, exit_code>>
    /\ UNCHANGED <<rat_gene, retries, delay, attempt, pcL, exc, history,
                   sleeps, data, outcome>>
    /\ UNCHANGED <<api, infile, outfile, pig_genes, future_to_gene, tasks,
                   not_found_count, error_count, yielded, cur, wi,
                   finished, completed>>
    /\ UNCHANGED <<args, input_exists, output_exists, stdout>>

\* cli.py:24-29: the lookup has ended; an exception of process_response
\* leaves main, an error sentinel is logged, anything else is printed
LookupReturns ==
    /\ pcC = "lookup"
    /\ pcL \in {"done", "raised"}
    /\ IF pcL = "raised"
       THEN pcC' = "raised" /\ exit_code' = 1 /\ UNCHANGED logs
       ELSE IF outcome.error
       THEN pcC' = "done" /\ exit_code' = 0 /\ logs' = Append(logs, "error")
       ELSE pcC' = "print" /\ UNCHANGED <<exit_code, logs>>
    /\ UNCHANGED <<rat_gene, retries, delay, attempt, pcL, exc, history,
                   sleeps, data, outcome>>
    /\ UNCHANGED <<args, input_exists, output_exists, stdout>>
    /\ UNCHANGED batchVars

\* cli.py:26-27: one iteration of the print loop; line 27 reads the keys
\* 'Rat_gene', 'gene_symbol', 'type', 'identity' and 'positivity'
PrintOrtholog ==
    /\ pcC = "print"
    /\ LET i == Len(stdout) + 1
       IN IF i > Len(outcome.records)
          THEN pcC' = "done" /\ exit_code' = 0 /\ UNCHANGED stdout
          ELSE LET ortholog == outcome.records[i]
               IN IF "Rat_gene" \in DOMAIN ortholog
                  THEN /\ stdout' = Append(stdout,
                                       <<ortholog.Rat_gene,
                                         ortholog.gene_symbol, ortholog.type,
                                         ortholog.identity,
                                         ortholog.positivity>>)
                       /\ UNCHANGED <<pcC, exit_code>>
                  ELSE /\ pcC' = "KeyError"
                       /\ exit_code' = 1
                       /\ UNCHANGED stdout
    /\ UNCHANGED <<args, input_exists, output_exists>>
    /\ UNCHANGED lookupVars
    /\ UNCHANGED batchVars

\* cli.py:43-44: process_csv has ended; its ValueError leaves main, its
\* return is logged
ProcessCsvReturns ==
    /\ pcC = "process_csv"
    /\ pcM \in {"done", "ValueError", "NameError"}
    /\ IF pcM = "done"
       THEN pcC' = "done" /\ exit_code' = 0 /\ logs' = Append(logs, "info")
       ELSE pcC' = "raised" /\ exit_code' = 1 /\ UNCHANGED logs
    /\ UNCHANGED <<rat_gene, retries, delay, attempt, pcL, exc, history,
                   sleeps, data, outcome>>
    /\ UNCHANGED <<args, input_exists, output_exists, stdout>>
    /\ UNCHANGED batchVars

\* cli.py:20 passes EnsemblAPI(): every task of the batch raises at
\* file_processing.py:73, so lines 79-85 and 93-95 take no step in a run of
\* main (CliNoTallyStep)
CliNext ==
    \/ MainSingle \/ MainFile \/ LookupReturns \/ PrintOrtholog
    \/ ProcessCsvReturns
    \/ LoopTest \/ GetOk \/ GetRaises \/ HandleError \/ Return
    \/ Validate \/ OpenFiles \/ WriteHeader \/ ReadGenes \/ Submit
    \/ \E t \in Futures : StartTask(t)
    \/ \E t \in Futures : CallLookup(t)
    \/ \E t \in Futures : ForOrtholog(t)
    \/ \E t \in Futures : NextCompleted(t)
    \/ ReturnTally

CliSpec == CliInit /\ [][CliNext]_vars

(***************************************************************************)
(* Properties of one lookup (checked under LookupSpec)                     *)
(***************************************************************************)
LookupReturned == pcL = "done"
LookupEnded == pcL \in {"done", "raised"}
AllFailed == \A i \in 1..Len(history) : history[i] # "ok"
IsSentinelRecord(r, sym) ==
    /\ r.gene_symbol = sym
    /\ r.type = "" /\ r.identity = "" /\ r.positivity = ""

\* the response fetch_data returned is of the documented shape
\* {data: [{homologies: [...]}]}
GotWellFormed ==
    /\ Len(history) > 0 /\ history[Len(history)] = "ok"
    /\ data.kind = "dict" /\ data.keys = {"data"} /\ Len(data.data) = 1
HumanEntries ==
    SelectSeq(data.data[1].homologies,
              LAMBDA h : h.target.species = "homo_sapiens")

\* C3: if every HTTP attempt of a lookup with max_attempts >= 1 fails, the
\* lookup returns exactly one record "error - retries exceeded" with empty
\* type/identity/positivity and failed = true, after exactly max_attempts
\* attempts.
C3_RetriesExceeded ==
    (LookupEnded /\ retries >= 1 /\ AllFailed) =>
        /\ LookupReturned
        /\ Len(history) = retries
        /\ outcome.error = TRUE
        /\ Len(outcome.records) = 1
        /\ IsSentinelRecord(outcome.records[1], "error - retries exceeded")
        /\ outcome.records[1].rat_gene = rat_gene

C3_Witness ==
    /\ LookupReturned /\ retries = 3 /\ Len(history) = 3 /\ AllFailed
    /\ outcome.error /\ history[2] = "HTTPError400"

\* C4: in a lookup where every one of max_attempts attempts fails, the
\* backoff sleep is invoked exactly max_attempts - 1 times (no sleep after
\* the final failed attempt).
C4_SleepsOneLessThanAttempts ==
    (LookupReturned /\ retries >= 1 /\ AllFailed) =>
        Len(sleeps) = retries - 1

\* C5: the returned failed flag is true if and only if every attempt made
\* by the lookup errored; a successful response, whatever its JSON content,
\* gives failed = false.
C5_FailedIffEveryAttemptErrored ==
    LookupReturned => (outcome.error <=> AllFailed)

\* C6: for a well-formed successful response with at least one homo_sapiens
\* entry, the lookup returns failed = false and exactly one record per such
\* entry, in response order, carrying the queried gene, target.id, type,
\* target.perc_id and target.perc_pos; no other record and no sentinel.
C6_HumanEntriesReturned ==
    (LookupEnded /\ GotWellFormed /\ Len(HumanEntries) >= 1) =>
        /\ LookupReturned
        /\ outcome.error = FALSE
        /\ Len(outcome.records) = Len(HumanEntries)
        /\ \A k \in 1..Len(HumanEntries) :
              /\ outcome.records[k].rat_gene = rat_gene
              /\ outcome.records[k].gene_symbol = HumanEntries[k].target.id
              /\ outcome.records[k].type = HumanEntries[k].type
              /\ outcome.records[k].identity = HumanEntries[k].target.perc_id
              /\ outcome.records[k].positivity = HumanEntries[k].target.perc_pos

C6_Witness ==
    /\ LookupReturned /\ GotWellFormed
    /\ Len(data.data[1].homologies) = 2
    /\ data.data[1].homologies[1].target.species = "mus_musculus"
    /\ Len(HumanEntries) = 1
    /\ Len(outcome.records) = 1
    /\ Len(history) = 2

\* C7: for a well-formed successful response without any homo_sapiens entry
\* (an empty homologies list included), the lookup returns exactly one
\* record "not found" with empty type/identity/positivity and failed = false.
C7_NotFoundSentinel ==
    (LookupEnded /\ GotWellFormed /\ Len(HumanEntries) = 0) =>
        /\ LookupReturned
        /\ outcome.error = FALSE
        /\ Len(outcome.records) = 1
        /\ IsSentinelRecord(outcome.records[1], "not found")
        /\ outcome.records[1].rat_gene = rat_gene

C7_Witness ==
    /\ LookupReturned /\ GotWellFormed
    /\ Len(data.data[1].homologies) = 1
    /\ Len(HumanEntries) = 0
    /\ outcome.records[1].gene_symbol = "not found"

(***************************************************************************)
(* Properties of one batch run (checked under Spec)                        *)
(***************************************************************************)
RECURSIVE SumTo(_, _)
SumTo(f, n) == IF n = 0 THEN 0 ELSE f[n] + SumTo(f, n - 1)
SumOverTasks(F(_)) == SumTo([t \in 1..Len(tasks) |-> F(tasks[t])], Len(tasks))

Sentinels(records) ==
    Cardinality({ k \in 1..Len(records) :
                    \/ records[k].gene_symbol = "not found"
                    \/ records[k].gene_symbol = "error - retries exceeded" })
RecordCount(task) == Len(task.human_orthologs)
SentinelCount(task) == Sentinels(task.human_orthologs)
FailedCount(task) == IF task.error THEN 1 ELSE 0
ReturnedRows(task) == IF task.pc = "returned" THEN Len(task.human_orthologs)
                      ELSE 0
BatchReturned == pcM = "done"

\* C1: when process_csv returns, the number of data rows written equals the
\* sum over all input genes of the number of records in the outcome that
\* EnsemblAPI.get_human_ortholog produced for the gene.
C1_RowCountIsSumOfRecords ==
    (BatchReturned /\ api = "EnsemblAPI") =>
        Len(outfile.rows) = SumOverTasks(RecordCount)

\* C2: when process_csv returns, under every interleaving of the worker
\* tasks, not_found_count is the number of sentinel records over all genes'
\* outcomes and error_count is the number of genes whose outcome has
\* failed = true.
C2_TallyCountsSentinelsAndFailures ==
    BatchReturned =>
        /\ not_found_count = SumOverTasks(SentinelCount)
        /\ error_count = SumOverTasks(FailedCount)

C9_SchemaErrorBeforeAnyWork ==
    (infile.header = <<>> \/ "Pig Gene" \notin Range(infile.header)) =>
        /\ pcM \in {"validate", "ValueError"}
        /\ future_to_gene = 0
        /\ tasks = <<>>
        /\ outfile \in {NoFile, OldFile}

C9_Witness ==
    /\ pcM = "ValueError"
    /\ infile.header = <<"Rat Gene">>
    /\ Len(infile.rows) = 2
    /\ outfile = OldFile

\* C10: a task that raises an unexpected exception contributes no output
\* row and has changed neither counter; no other task is cancelled, the
\* rows of every task that returned are written, and process_csv returns
\* its tally instead of propagating the exception.
C10_TaskCrashIsolated ==
    /\ \A t \in 1..Len(tasks) :
          tasks[t].pc = "raised" => tasks[t].stores = 0
    /\ pcM # "propagated"
    /\ BatchReturned =>
          /\ \A t \in 1..Len(tasks) : tasks[t].pc \in {"returned", "raised"}
          /\ Len(outfile.rows) = SumOverTasks(ReturnedRows)
          /\ \A k \in 1..Len(outfile.rows) :
                \E t \in 1..Len(tasks) :
                   /\ tasks[t].pc = "returned"
                   /\ \E j \in 1..Len(tasks[t].human_orthologs) :
                         /\ outfile.rows[k][1] = tasks[t].gene
                         /\ outfile.rows[k][2] =
                               tasks[t].human_orthologs[j].gene_symbol

C10_Witness ==
    /\ BatchReturned
    /\ Len(tasks) = 2
    /\ tasks[1].pc = "raised" /\ Len(tasks[1].results) = 1
    /\ tasks[2].pc = "returned" /\ tasks[2].error
    /\ Len(outfile.rows) = 1
    /\ not_found_count = 1 /\ error_count = 1

(***************************************************************************)
(* Properties of the worker pool (checked under PoolSpec)                  *)
(***************************************************************************)
InFlight ==
    { t \in 1..Len(tasks) : tasks[t].pc \in {"lookup", "sleep"} }
Sleeping == { t \in 1..Len(tasks) : tasks[t].pc = "sleep" }

\* C11: at every moment of a batch run the number of lookups in flight
\* (started and not finished, tasks sleeping in backoff included) is at most
\* the pool width of 10, however many input genes there are.
C11_InFlightAtMostPoolWidth == Cardinality(InFlight) <= 10

C11_Witness ==
    /\ Len(tasks) > 10
    /\ Cardinality(InFlight) = 10
    /\ Cardinality(Sleeping) >= 1
    /\ \E t \in 1..Len(tasks) : tasks[t].pc = "queued"

(***************************************************************************)
(* Concurrency of one batch run (checked under Spec)                       *)
(***************************************************************************)
\* the task has read a counter and not yet stored the sum
InsideIncrement(t) == tasks[t].pc \in {"store_nf", "store_ec"}
StoresOf(task) == task.stores

OutcomeRows(t) ==
    [k \in 1..Len(tasks[t].human_orthologs) |->
        <<tasks[t].gene, tasks[t].human_orthologs[k].gene_symbol,
          tasks[t].human_orthologs[k].type,
          tasks[t].human_orthologs[k].identity,
          tasks[t].human_orthologs[k].positivity>>]

\* the futures whose rows have been written completely
Written == { t \in yielded : tasks[t].pc = "returned" /\ t # cur }

Orders(S) ==
    { f \in [1..Cardinality(S) -> S] :
         \A a, b \in 1..Cardinality(S) : (a # b) => (f[a] # f[b]) }

RECURSIVE Concat(_, _)
Concat(order, n) ==
    IF n = 0 THEN <<>> ELSE Concat(order, n - 1) \o OutcomeRows(order[n])

\* C13: only one task's results are appended to the output at a time: the
\* output is, for some order of the written tasks, their outcomes' rows one
\* block after the other, each block in the Resolver's order, followed by
\* the rows written so far of the task being written.
C13_RowsContiguousInResolverOrder ==
    \E order \in Orders(Written) :
        outfile.rows =
            Concat(order, Cardinality(Written))
            \o (IF cur = 0 THEN <<>>
                ELSE SubSeq(OutcomeRows(cur), 1, wi - 1))

C13_Witness ==
    /\ BatchReturned
    /\ Len(tasks) = 2
    /\ tasks[1].gene # tasks[2].gene
    /\ Len(tasks[1].human_orthologs) = 1
    /\ Len(outfile.rows) = 3
    /\ outfile.rows[1][1] = tasks[2].gene /\ outfile.rows[1][2] = "PDX1"
    /\ outfile.rows[2][1] = tasks[2].gene /\ outfile.rows[2][2] = "INS"
    /\ outfile.rows[3][1] = tasks[1].gene

\* C14: when process_csv returns its tally, every submitted lookup has run
\* to its end (none cancelled, none pending), every future was drained, and
\* every row of every outcome a lookup completed with has been written.
C14_ReturnsAfterAllWorkIsWritten ==
    BatchReturned =>
        /\ future_to_gene = Len(pig_genes)
        /\ \A t \in 1..Len(tasks) : tasks[t].pc \in {"returned", "raised"}
        /\ yielded = 1..Len(tasks) /\ cur = 0
        /\ \A t \in 1..Len(tasks) :
              \A k \in 1..Len(tasks[t].human_orthologs) :
                 \E n \in 1..Len(outfile.rows) :
                    outfile.rows[n] = OutcomeRows(t)[k]

(***************************************************************************)
(* More properties of one lookup (checked under LookupSpec)                *)
(***************************************************************************)

\* the failed attempts whose handle_error has run
Handled ==
    Len(SelectSeq(history, LAMBDA h : h # "ok"))
        - (IF pcL = "handle" THEN 1 ELSE 0)

\* C17: a 400 response takes the retry path of every other failure: each
\* failed attempt, 400 or not, is followed by one backoff sleep and one more
\* pass of the loop, a 400 before the last attempt never ends the lookup,
\* a lookup whose attempts all failed made max_attempts of them and returns
\* the retries-exceeded sentinel whatever the kinds of failure; the only
\* difference is the severity logged, warning for a 400 and only for a 400.
C17_Http400SameRetryPath ==
    /\ Len(sleeps) = Handled
    /\ Len(logs) = 2 * Handled
    /\ \A i \in 1..Handled :
          /\ (logs[2 * i - 1] = "warning") <=> (history[i] = "HTTPError400")
          /\ logs[2 * i] = "info"
          /\ sleeps[i].attempt = i - 1
    /\ \A i \in 1..Len(history) :
          (history[i] = "HTTPError400" /\ i < retries /\ i = Len(history))
             => pcL \in {"handle", "loop", "get"}
    /\ (LookupEnded /\ AllFailed) =>
          /\ Len(history) = retries
          /\ pcL = "done"
          /\ outcome = [records |-> <<ErrorRecord(rat_gene)>>, error |-> TRUE]

\* a lookup that met a plain HTTP error, then a 400, then a response
C17_Witness ==
    /\ pcL = "done"
    /\ history = <<"HTTPError", "HTTPError400", "ok">>
    /\ Len(sleeps) = 2
    /\ ~outcome.error

\* C19: one lookup issues at most max_attempts GETs; only the last attempt
\* made can be a success, so attempt k+1 is issued only after attempt k
\* failed; once an attempt succeeds fetch_data returns the body of that
\* response, and no further GET is issued and no further sleep performed.
C19_AtMostMaxAttemptsStopsAtSuccess ==
    /\ Len(history) <= retries
    /\ \A i \in 1..(Len(history) - 1) : history[i] # "ok"
    /\ (history # <<>> /\ history[Len(history)] = "ok") =>
          /\ pcL \in {"return", "done", "raised"}
          /\ data \in Bodies
          /\ Len(sleeps) = Len(history) - 1
          /\ attempt = Len(history) - 1

\* a lookup that succeeded at its second attempt of three
C19_Witness ==
    /\ pcL = "done"
    /\ retries = MaxRetries
    /\ history = <<"HTTPError", "ok">>
    /\ Len(sleeps) = 1

\* C20: the k-th sleep of a lookup (k from 0) follows failed attempt k and
\* lasts base_delay * 2^k * jitter with 0.8 <= jitter < 1.2 (milliseconds
\* here, jitter in thousandths); the jitter-free delay doubles from one
\* attempt to the next, and consecutive sleeps of one lookup are strictly
\* increasing.
C20_BackoffDoublesAndIncreases ==
    /\ \A i \in 1..Len(sleeps) :
          /\ sleeps[i].attempt = i - 1
          /\ sleeps[i].sleep_time >= delay * 2^(i - 1) * 800
          /\ sleeps[i].sleep_time < delay * 2^(i - 1) * 1200
    /\ \A i \in 1..(Len(sleeps) - 1) :
          sleeps[i].sleep_time < sleeps[i + 1].sleep_time
    /\ \A k \in 0..(attempt - 1) :
          SleepTime(delay, k + 1, 1000) = 2 * SleepTime(delay, k, 1000)

\* three sleeps, the first with the longest and the second with the
\* shortest jitter drawn
C20_Witness ==
    /\ Len(sleeps) = 3
    /\ sleeps[1].sleep_time = SleepTime(delay, 0, 1199)
    /\ sleeps[2].sleep_time = SleepTime(delay, 1, 800)

(***************************************************************************)
(* Properties of one run of main (checked under CliSpec)                   *)
(***************************************************************************)

\* a run of main takes no step of file_processing.py:79-85 or 93-95
CliNoTallyStep ==
    /\ cur = 0
    /\ \A t \in 1..Len(tasks) :
          tasks[t].pc \notin {"load_nf", "store_nf", "load_err", "store_err"}

\* file mode was asked for and one of the three checks of cli.py:31-41 fails
Refused ==
    /\ ~SingleMode(args)
    /\ \/ MissingPath(args)
       \/ ~input_exists
       \/ output_exists /\ ~args.overwrite

\* the output path is as main found it
OutputUntouched == outfile = (IF output_exists THEN OldFile ELSE NoFile)

\* process_csv was called
BatchCalled == pcM # "idle"

\* C15: in file mode, when a path is missing, or the input file does not
\* exist, or the output file exists and --overwrite was not given, main exits
\* with status 1 and process_csv is never called: no lookup is made and the
\* output file is not written; process_csv is called only when none of the
\* three conditions holds.
C15_FileModeRefusals ==
    /\ Refused =>
          /\ pcC \in {"main", "exit"}
          /\ pcC = "exit" => exit_code = 1
          /\ ~BatchCalled
          /\ tasks = <<>>
          /\ pcL = "idle" /\ history = <<>>
          /\ OutputUntouched
    /\ BatchCalled => ~SingleMode(args) /\ ~Refused

\* an existing output file without --overwrite: main has exited with 1
C15_Witness ==
    /\ ~SingleMode(args) /\ ~MissingPath(args) /\ input_exists
    /\ output_exists /\ ~args.overwrite
    /\ pcC = "exit" /\ exit_code = 1

HeaderBeforeSubmission ==
    (future_to_gene > 0 \/ pcM \in {"submit", "as_completed", "done"}) =>
        outfile.header = fieldnames

\* one future per data row, duplicates included, each for the gene of its row
OneLookupPerRow ==
    /\ future_to_gene <= Len(infile.rows)
    /\ pcM \in {"submit", "as_completed", "done"} =>
          /\ Len(tasks) = Len(infile.rows)
          /\ \A t \in 1..Len(tasks) : tasks[t].gene = infile.rows[t]
    /\ pcM \in {"as_completed", "done"} => future_to_gene = Len(infile.rows)

\* the rows submitted so far are the first rows of the input
SubmittedInRowOrder ==
    \A t \in 1..Len(tasks) :
       tasks[t].pc # "created" =>
          /\ t <= future_to_gene
          /\ \A u \in 1..(t - 1) : tasks[u].pc # "created"

\* the task has returned rows to write
HasRows(t) == tasks[t].pc = "returned" /\ tasks[t].results # <<>>

\* no task of another gene that finished earlier than the one whose rows are
\* being written still has its rows waiting
WrittenInCompletionOrder ==
    cur # 0 =>
       \A k \in 1..Len(completed) :
          (HasRows(completed[k]) /\ tasks[completed[k]].gene # tasks[cur].gene)
             => \E j \in 1..(k - 1) : completed[j] = cur

SchemaError == infile.header = <<>> \/ "Pig Gene" \notin Range(infile.header)

\* C22: when process_csv fails with a schema error (empty header or missing
\* gene column) the output file is never opened for writing: a file that
\* existed at the output path keeps its content, and no file is created
\* where there was none.
C22_SchemaErrorLeavesOutputAlone ==
    (BatchCalled /\ SchemaError) =>
        /\ pcM \in {"validate", "ValueError"}
        /\ outfile.exists = output_exists
        /\ output_exists => outfile = OldFile
        /\ ~output_exists => outfile = NoFile

\* process_csv has raised on an empty input file, next to an old output file
C22_Witness ==
    /\ pcM = "ValueError"
    /\ infile.header = <<>>
    /\ output_exists /\ args.overwrite
    /\ outfile = OldFile

=============================================================================
